---- MODULE Spec2Model ----
(***************************************************************************)
(* BankSim3000 (src/main.cpp): a discrete-event simulation of a bank with  *)
(* a pool of tellers, an event priority queue and a FIFO bank line.        *)
(*                                                                         *)
(* One engine object is modelled.  Its public operation                    *)
(* maxTellerBusyTime(tellerCount) is split at the iterations of the event  *)
(* loop: SetupSimulation (or RejectedCall when the count is out of range), *)
(* then one RunSimulation step per popped event, then GatherResults.       *)
(***************************************************************************)
EXTENDS Integers, Sequences, FiniteSets

VARIABLES
    simulationInput,  \* the stored input trace, a sequence of ArrivalEvents
    eventQueue,       \* the events pending in the priority queue
    bankLine,         \* the FIFO line of waiting Customers
    tellers,          \* the teller pool (tellers[i + 1] is teller index i)
    pc,               \* "idle" between calls, "running" inside the event loop,
                      \* "aborted" after a failed assert, "threw" after bad_optional_access
    lastError,        \* what the last call of maxTellerBusyTime raised
    runTellerCount,   \* the tellerCount argument of the call set up last
    lastResult,       \* what the last completed call returned
    opLog,            \* pushes and pops on eventQueue since it was last set up
    tieMemo,          \* how the priority queue resolved equal-time events in the
                      \* runs made with the current teller count
    served,           \* the startWork calls of the current run
    tellerCalls       \* the Teller::startWork / stopWork calls of the last event step

vars == <<simulationInput, eventQueue, bankLine, tellers, pc, lastError,
          runTellerCount, lastResult, opLog, tieMemo, served, tellerCalls>>

----------------------------------------------------------------------------
(* Bounds of the model. *)

MaxArrivals == 2
MaxTime == 1
MaxTxn == 1
MaxLineArrivals == 3

(* Program constants. *)

MIN_TELLERS == 1
MAX_TELLERS == 5

----------------------------------------------------------------------------
(* Data types. *)

Nullopt == [has_value |-> FALSE, value |-> 0]
Some(v) == [has_value |-> TRUE, value |-> v]

ArrivalEvent(arrivalTime, transactionTime) ==
    [kind |-> "ArrivalEvent", arrivalTime |-> arrivalTime,
     transactionTime |-> transactionTime]

DepartureEvent(departureTime, tellerIndex) ==
    [kind |-> "DepartureEvent", departureTime |-> departureTime,
     tellerIndex |-> tellerIndex]

Customer(arrivalEvent) == [arrivalEvent |-> arrivalEvent]

\* Mutant: the wrong field of an ArrivalEvent is returned.
get_event_time_WrongField(e) ==
    IF e.kind = "ArrivalEvent" THEN e.transactionTime ELSE e.departureTime

get_event_time(e) ==
    IF e.kind = "ArrivalEvent" THEN e.arrivalTime ELSE e.departureTime

\* Mutant: the comparison is turned round (a max-heap).
CompareEvent_MaxHeap(e1, e2) == get_event_time(e1) < get_event_time(e2)

\* The priority queue's ordering: TRUE when e1 is to come out after e2.
CompareEvent(e1, e2) == get_event_time(e1) > get_event_time(e2)

(* Teller. *)

NewTeller == [startBusy |-> Nullopt, elapsedTimeBusy |-> 0]

\* Mutant: every teller is reported available.
isAvailable_Always(teller) == TRUE

isAvailable(teller) == ~teller.startBusy.has_value

startWork(teller, currentTime) ==
    [teller EXCEPT !.startBusy = Some(currentTime)]

\* Mutant: startBusy is not reset, so the teller stays busy.
stopWork_StaysBusy(teller, currentTime) ==
    [teller EXCEPT !.elapsedTimeBusy = @ + (currentTime - teller.startBusy.value)]

\* Mutant: the elapsed time is assigned, not accumulated.
stopWork_Assigns(teller, currentTime) ==
    [teller EXCEPT !.elapsedTimeBusy = currentTime - teller.startBusy.value,
                   !.startBusy = Nullopt]

stopWork(teller, currentTime) ==
    [teller EXCEPT !.elapsedTimeBusy = @ + (currentTime - teller.startBusy.value),
                   !.startBusy = Nullopt]

elapsedTimeWorking(teller) == teller.elapsedTimeBusy

----------------------------------------------------------------------------
(* Sequence helpers. *)

Range(s) == {s[i] : i \in 1..Len(s)}

RECURSIVE SumSeq(_)
SumSeq(s) == IF s = <<>> THEN 0 ELSE Head(s) + SumSeq(Tail(s))

RECURSIVE MaxSeq(_)
MaxSeq(s) ==
    IF Len(s) = 1 THEN s[1]
    ELSE LET m == MaxSeq(Tail(s)) IN IF m > Head(s) THEN m ELSE Head(s)

RECURSIVE MinSeq(_)
MinSeq(s) ==
    IF Len(s) = 1 THEN s[1]
    ELSE LET m == MinSeq(Tail(s)) IN IF m < Head(s) THEN m ELSE Head(s)

\* s without its first occurrence of e.
RemoveOne(s, e) ==
    LET i == CHOOSE k \in 1..Len(s) : s[k] = e /\ \A j \in 1..(k - 1) : s[j] # e
    IN  SubSeq(s, 1, i - 1) \o SubSeq(s, i + 1, Len(s))

Count(s, e) == Cardinality({i \in 1..Len(s) : s[i] = e})

----------------------------------------------------------------------------
(* The event priority queue.  Its contents are kept in insertion order;   *)
(* the order says nothing about which event comes out first.               *)

Push(e) == [op |-> "push", event |-> e]
Pop(e) == [op |-> "pop", event |-> e]

\* The events top() may return: those no other pending event is ordered before.
TopEvents(queue) ==
    {e \in Range(queue) : \A f \in Range(queue) : ~CompareEvent(e, f)}

\* std::priority_queue is a deterministic function of the pushes and pops
\* made on it, so a tie resolved once after a given history is resolved the
\* same way after the same history; which way is the library's choice.
TieChoices(queue, log, memo) ==
    IF \E m \in memo : m.log = log
    THEN {m.event : m \in {k \in memo : k.log = log}}
    ELSE TopEvents(queue)

TieMemoAfter(queue, log, memo, e) ==
    IF Cardinality(TopEvents(queue)) > 1
    THEN memo \cup {[log |-> log, event |-> e]}
    ELSE memo

\* What is kept of the resolutions at the next set-up.  A run with the teller
\* count of the run before it replays that run's history, so its equal-time
\* events come out as they did; across a change of teller count nothing is
\* carried over, which leaves the queue freer than any one library is.
TieMemoAtSetup(memo, lastCount, tellerCount) ==
    IF tellerCount = lastCount THEN memo ELSE {}

\* Number of events popped since the queue was set up.
Popped(log) == Cardinality({i \in 1..Len(log) : log[i].op = "pop"})

\* Time of the event being processed (of the last event popped).
CurrentTime(log) ==
    LET pops == {i \in 1..Len(log) : log[i].op = "pop"}
        last == CHOOSE i \in pops : \A j \in pops : j <= i
    IN  get_event_time(log[last].event)

----------------------------------------------------------------------------
(* Set-up. *)

\* Mutant: the new tellers are added without the clear().
resetTellers_NoClear(old, tellerCount) ==
    old \o [i \in 1..tellerCount |-> NewTeller]

\* Mutant: tellers that existed before keep their accumulated busy time.
resetTellers_KeepsBusyTime(old, tellerCount) ==
    [i \in 1..tellerCount |->
        IF i <= Len(old)
        THEN [startBusy |-> Nullopt, elapsedTimeBusy |-> old[i].elapsedTimeBusy]
        ELSE NewTeller]

resetTellers(old, tellerCount) == [i \in 1..tellerCount |-> NewTeller]

clearBankLine(line) == <<>>

setupEventQueue(queue, input) == input

ValidTellerCount(tellerCount) ==
    ~(tellerCount < MIN_TELLERS) /\ ~(tellerCount > MAX_TELLERS)

\* Mutant: the range checks come after setupEventQueue and resetTellers.
RejectedCall_ChecksLate(tellerCount) ==
    /\ pc = "idle"
    /\ ~ValidTellerCount(tellerCount)
    /\ lastError' = "invalid_argument"
    /\ eventQueue' = setupEventQueue(eventQueue, simulationInput)
    /\ tellers' = resetTellers(tellers, tellerCount)
    /\ UNCHANGED <<simulationInput, bankLine, pc, runTellerCount, lastResult,
                   opLog, tieMemo, served, tellerCalls>>

\* maxTellerBusyTime(tellerCount) with a count setupSimulation rejects:
\* invalid_argument is thrown before anything is touched.
RejectedCall(tellerCount) ==
    /\ pc = "idle"
    /\ ~ValidTellerCount(tellerCount)
    /\ lastError' = "invalid_argument"
    /\ UNCHANGED <<simulationInput, eventQueue, bankLine, tellers, pc,
                   runTellerCount, lastResult, opLog, tieMemo, served,
                   tellerCalls>>

\* maxTellerBusyTime(tellerCount) up to the first test of the event loop.
SetupSimulation(tellerCount) ==
    /\ pc = "idle"
    /\ ValidTellerCount(tellerCount)
    /\ lastError' = "none"
    /\ runTellerCount' = tellerCount
    /\ IF eventQueue # <<>>
       THEN \* assert(eventQueue.empty()) fails
            /\ pc' = "aborted"
            /\ UNCHANGED <<eventQueue, tellers, bankLine, opLog, served,
                           tellerCalls>>
       ELSE /\ eventQueue' = setupEventQueue(eventQueue, simulationInput)
            /\ opLog' = [i \in 1..Len(simulationInput) |-> Push(simulationInput[i])]
            /\ tellers' = resetTellers(tellers, tellerCount)
            /\ served' = <<>>
            /\ tellerCalls' = <<>>
            /\ IF bankLine # <<>>
               THEN \* assert(bankLine.empty()) fails
                    pc' = "aborted" /\ UNCHANGED bankLine
               ELSE pc' = "running" /\ bankLine' = clearBankLine(bankLine)
    /\ tieMemo' = TieMemoAtSetup(tieMemo, runTellerCount, tellerCount)
    /\ UNCHANGED <<simulationInput, lastResult>>

----------------------------------------------------------------------------
(* Event processing. *)

\* Mutant: the loop stops one teller short (i + 1 < tellers.size()).
searchAvailableTellers_StopsShort(pool) ==
    LET free == {i \in 0..(Len(pool) - 2) : isAvailable(pool[i + 1])}
    IN  IF free = {} THEN Nullopt
        ELSE Some(CHOOSE i \in free : \A j \in free : i <= j)

\* Mutant: the search keeps going and returns the last available teller.
searchAvailableTellers_Last(pool) ==
    LET free == {i \in 0..(Len(pool) - 1) : isAvailable(pool[i + 1])}
    IN  IF free = {} THEN Nullopt
        ELSE Some(CHOOSE i \in free : \A j \in free : i >= j)

\* Index of the first available teller, or nullopt.
searchAvailableTellers(pool) ==
    LET free == {i \in 0..(Len(pool) - 1) : isAvailable(pool[i + 1])}
    IN  IF free = {} THEN Nullopt
        ELSE Some(CHOOSE i \in free : \A j \in free : i <= j)

\* A customer's service: fromLine says that the customer came off the bank line.
Service(arrivalEvent, startTime, tellerIndex, fromLine) ==
    [arrivalEvent |-> arrivalEvent, startTime |-> startTime,
     tellerIndex |-> tellerIndex, fromLine |-> fromLine]

\* A call of Teller::startWork or Teller::stopWork, with the teller before and
\* after it.
Call(op, tellerIndex, currentTime, before, after) ==
    [op |-> op, tellerIndex |-> tellerIndex, currentTime |-> currentTime,
     before |-> before, after |-> after]

\* Mutant: the departure is scheduled at the transaction time alone, the
\* current time is not added.
processArrival_DepartureAtTxn(currentTime, arrivalEvent, queue, log) ==
    LET teller == searchAvailableTellers(tellers)
        departure == DepartureEvent(arrivalEvent.transactionTime, teller.value)
    IN  IF teller.has_value
        THEN /\ tellers' = [tellers EXCEPT ![teller.value + 1] =
                                startWork(@, currentTime)]
             /\ eventQueue' = Append(queue, departure)
             /\ opLog' = Append(log, Push(departure))
             /\ served' = Append(served,
                                 Service(arrivalEvent, currentTime, teller.value,
                                         FALSE))
             /\ tellerCalls' =
                    <<Call("startWork", teller.value, currentTime,
                           tellers[teller.value + 1],
                           startWork(tellers[teller.value + 1], currentTime))>>
             /\ UNCHANGED <<bankLine, pc>>
        ELSE /\ bankLine' = Append(bankLine, Customer(arrivalEvent))
             /\ eventQueue' = queue
             /\ opLog' = log
             /\ tellerCalls' = <<>>
             /\ UNCHANGED <<tellers, served, pc>>

\* queue and log are the event queue and its history after the pop.
processArrival(currentTime, arrivalEvent, queue, log) ==
    LET teller == searchAvailableTellers(tellers)
        departure == DepartureEvent(currentTime + arrivalEvent.transactionTime,
                                    teller.value)
    IN  IF teller.has_value
        THEN /\ tellers' = [tellers EXCEPT ![teller.value + 1] =
                                startWork(@, currentTime)]
             /\ eventQueue' = Append(queue, departure)
             /\ opLog' = Append(log, Push(departure))
             /\ served' = Append(served,
                                 Service(arrivalEvent, currentTime, teller.value,
                                         FALSE))
             /\ tellerCalls' =
                    <<Call("startWork", teller.value, currentTime,
                           tellers[teller.value + 1],
                           startWork(tellers[teller.value + 1], currentTime))>>
             /\ UNCHANGED <<bankLine, pc>>
        ELSE /\ bankLine' = Append(bankLine, Customer(arrivalEvent))
             /\ eventQueue' = queue
             /\ opLog' = log
             /\ tellerCalls' = <<>>
             /\ UNCHANGED <<tellers, served, pc>>

\* Mutant: the customer served next is left at the front of the bank line.
processDeparture_NoPop(currentTime, departureEvent, queue, log) ==
    LET tellerIndex == departureEvent.tellerIndex
        nextCustomer == Head(bankLine)
        newDeparture ==
            DepartureEvent(currentTime + nextCustomer.arrivalEvent.transactionTime,
                           tellerIndex)
    IN  IF bankLine = <<>>
        THEN /\ tellers' = [tellers EXCEPT ![tellerIndex + 1] =
                                stopWork(@, currentTime)]
             /\ eventQueue' = queue
             /\ opLog' = log
             /\ tellerCalls' =
                    <<Call("stopWork", tellerIndex, currentTime,
                           tellers[tellerIndex + 1],
                           stopWork(tellers[tellerIndex + 1], currentTime))>>
             /\ UNCHANGED <<bankLine, served, pc>>
        ELSE /\ tellers' = [tellers EXCEPT ![tellerIndex + 1] =
                                startWork(stopWork(@, currentTime), currentTime)]
             /\ eventQueue' = Append(queue, newDeparture)
             /\ opLog' = Append(log, Push(newDeparture))
             /\ served' = Append(served,
                                 Service(nextCustomer.arrivalEvent, currentTime,
                                         tellerIndex, TRUE))
             /\ tellerCalls' =
                    <<Call("stopWork", tellerIndex, currentTime,
                           tellers[tellerIndex + 1],
                           stopWork(tellers[tellerIndex + 1], currentTime)),
                      Call("startWork", tellerIndex, currentTime,
                           stopWork(tellers[tellerIndex + 1], currentTime),
                           startWork(stopWork(tellers[tellerIndex + 1],
                                              currentTime), currentTime))>>
             /\ UNCHANGED <<bankLine, pc>>

\* Mutant: bankLine.back() in place of bankLine.front().
processDeparture_ServesBack(currentTime, departureEvent, queue, log) ==
    LET tellerIndex == departureEvent.tellerIndex
        nextCustomer == bankLine[Len(bankLine)]
        newDeparture ==
            DepartureEvent(currentTime + nextCustomer.arrivalEvent.transactionTime,
                           tellerIndex)
    IN  IF ~tellers[tellerIndex + 1].startBusy.has_value
        THEN \* startBusy.value() throws bad_optional_access
             /\ pc' = "threw"
             /\ eventQueue' = queue
             /\ opLog' = log
             /\ bankLine' = IF bankLine = <<>> THEN bankLine ELSE Tail(bankLine)
             /\ tellerCalls' =
                    <<Call("stopWork", tellerIndex, currentTime,
                           tellers[tellerIndex + 1], tellers[tellerIndex + 1])>>
             /\ UNCHANGED <<tellers, served>>
        ELSE IF bankLine = <<>>
        THEN /\ tellers' = [tellers EXCEPT ![tellerIndex + 1] =
                                stopWork(@, currentTime)]
             /\ eventQueue' = queue
             /\ opLog' = log
             /\ tellerCalls' =
                    <<Call("stopWork", tellerIndex, currentTime,
                           tellers[tellerIndex + 1],
                           stopWork(tellers[tellerIndex + 1], currentTime))>>
             /\ UNCHANGED <<bankLine, served, pc>>
        ELSE /\ bankLine' = Tail(bankLine)
             /\ tellers' = [tellers EXCEPT ![tellerIndex + 1] =
                                startWork(stopWork(@, currentTime), currentTime)]
             /\ eventQueue' = Append(queue, newDeparture)
             /\ opLog' = Append(log, Push(newDeparture))
             /\ served' = Append(served,
                                 Service(nextCustomer.arrivalEvent, currentTime,
                                         tellerIndex, TRUE))
             /\ tellerCalls' =
                    <<Call("stopWork", tellerIndex, currentTime,
                           tellers[tellerIndex + 1],
                           stopWork(tellers[tellerIndex + 1], currentTime)),
                      Call("startWork", tellerIndex, currentTime,
                           stopWork(tellers[tellerIndex + 1], currentTime),
                           startWork(stopWork(tellers[tellerIndex + 1],
                                              currentTime), currentTime))>>
             /\ UNCHANGED pc

processDeparture(currentTime, departureEvent, queue, log) ==
    LET tellerIndex == departureEvent.tellerIndex
        nextCustomer == Head(bankLine)
        newDeparture ==
            DepartureEvent(currentTime + nextCustomer.arrivalEvent.transactionTime,
                           tellerIndex)
    IN  IF ~tellers[tellerIndex + 1].startBusy.has_value
        THEN \* startBusy.value() throws bad_optional_access
             /\ pc' = "threw"
             /\ eventQueue' = queue
             /\ opLog' = log
             /\ bankLine' = IF bankLine = <<>> THEN bankLine ELSE Tail(bankLine)
             /\ tellerCalls' =
                    <<Call("stopWork", tellerIndex, currentTime,
                           tellers[tellerIndex + 1], tellers[tellerIndex + 1])>>
             /\ UNCHANGED <<tellers, served>>
        ELSE IF bankLine = <<>>
        THEN /\ tellers' = [tellers EXCEPT ![tellerIndex + 1] =
                                stopWork(@, currentTime)]
             /\ eventQueue' = queue
             /\ opLog' = log
             /\ tellerCalls' =
                    <<Call("stopWork", tellerIndex, currentTime,
                           tellers[tellerIndex + 1],
                           stopWork(tellers[tellerIndex + 1], currentTime))>>
             /\ UNCHANGED <<bankLine, served, pc>>
        ELSE /\ bankLine' = Tail(bankLine)
             /\ tellers' = [tellers EXCEPT ![tellerIndex + 1] =
                                startWork(stopWork(@, currentTime), currentTime)]
             /\ eventQueue' = Append(queue, newDeparture)
             /\ opLog' = Append(log, Push(newDeparture))
             /\ served' = Append(served,
                                 Service(nextCustomer.arrivalEvent, currentTime,
                                         tellerIndex, TRUE))
             /\ tellerCalls' =
                    <<Call("stopWork", tellerIndex, currentTime,
                           tellers[tellerIndex + 1],
                           stopWork(tellers[tellerIndex + 1], currentTime)),
                      Call("startWork", tellerIndex, currentTime,
                           stopWork(tellers[tellerIndex + 1], currentTime),
                           startWork(stopWork(tellers[tellerIndex + 1],
                                              currentTime), currentTime))>>
             /\ UNCHANGED pc

processEvent(currentTime, e, queue, log) ==
    IF e.kind = "ArrivalEvent"
    THEN processArrival(currentTime, e, queue, log)
    ELSE processDeparture(currentTime, e, queue, log)

\* One iteration of the event loop: top(), pop(), processEvent.
RunSimulation ==
    /\ pc = "running"
    /\ eventQueue # <<>>
    /\ \E e \in TieChoices(eventQueue, opLog, tieMemo) :
          /\ tieMemo' = TieMemoAfter(eventQueue, opLog, tieMemo, e)
          /\ processEvent(get_event_time(e), e, RemoveOne(eventQueue, e),
                          Append(opLog, Pop(e)))
    /\ UNCHANGED <<simulationInput, lastError, runTellerCount, lastResult>>

----------------------------------------------------------------------------
(* Results. *)

gatherResults(pool) == [i \in 1..Len(pool) |-> elapsedTimeWorking(pool[i])]

\* Mutant: min_element in place of max_element.
maxTellerBusyTime_Min(elapsedTimeBusy) == MinSeq(elapsedTimeBusy)

maxTellerBusyTime(elapsedTimeBusy) == MaxSeq(elapsedTimeBusy)

NoResult == [has_value |-> FALSE, tellerCount |-> 0, elapsedTimeBusy |-> <<>>,
             peak |-> 0]

Result(tellerCount, pool) ==
    [has_value |-> TRUE, tellerCount |-> tellerCount,
     elapsedTimeBusy |-> gatherResults(pool),
     peak |-> maxTellerBusyTime(gatherResults(pool))]

\* The event loop finds the queue empty; the call returns its result.
GatherResults ==
    /\ pc = "running"
    /\ eventQueue = <<>>
    /\ lastResult' = Result(runTellerCount, tellers)
    /\ pc' = "idle"
    /\ UNCHANGED <<simulationInput, eventQueue, bankLine, tellers, lastError,
                   runTellerCount, opLog, tieMemo, served, tellerCalls>>

----------------------------------------------------------------------------
(* Specifications. *)

ArrivalEvents ==
    {ArrivalEvent(t, x) : t \in 0..MaxTime, x \in 0..MaxTxn}

Traces ==
    UNION {[1..n -> ArrivalEvents] : n \in 0..MaxArrivals}

\* The engine as constructed on the given trace.
Constructed(trace) ==
    /\ simulationInput = trace
    /\ eventQueue = <<>>
    /\ bankLine = <<>>
    /\ tellers = <<>>
    /\ pc = "idle"
    /\ lastError = "none"
    /\ runTellerCount = 0
    /\ lastResult = NoResult
    /\ opLog = <<>>
    /\ tieMemo = {}
    /\ served = <<>>
    /\ tellerCalls = <<>>

Init == \E trace \in Traces : Constructed(trace)

Next ==
    \/ \E tellerCount \in 0..(MAX_TELLERS + 1) : SetupSimulation(tellerCount)
    \/ \E tellerCount \in 0..(MAX_TELLERS + 1) : RejectedCall(tellerCount)
    \/ RunSimulation
    \/ GatherResults

Spec == Init /\ [][Next]_vars

\* The trace of main().
SimulationInput00 ==
    <<ArrivalEvent(20, 6), ArrivalEvent(22, 4), ArrivalEvent(23, 2),
      ArrivalEvent(30, 3)>>

InitRef == Constructed(SimulationInput00)

SpecRef == InitRef /\ [][Next]_vars

\* Traces of up to MaxLineArrivals arrivals, listed in order of arrival time
\* and, at equal arrival times, of transaction time.  The event queue orders
\* the arrivals by time and brings equal-time events out in any order, so the
\* order in which the trace lists them does not matter to a run.
InOrder(trace) ==
    \A i \in 1..(Len(trace) - 1) :
        \/ trace[i].arrivalTime < trace[i + 1].arrivalTime
        \/ /\ trace[i].arrivalTime = trace[i + 1].arrivalTime
           /\ trace[i].transactionTime <= trace[i + 1].transactionTime

LineTraces ==
    {trace \in UNION {[1..n -> ArrivalEvents] : n \in 0..MaxLineArrivals} :
        InOrder(trace)}

InitLine == \E trace \in LineTraces : Constructed(trace)

SpecLine == InitLine /\ [][Next]_vars

\* The event loop is a plain while loop: it keeps iterating while it can.
LiveSpec == Spec /\ WF_vars(RunSimulation) /\ WF_vars(GatherResults)

----------------------------------------------------------------------------
(* Properties. *)

TotalTransactionTime(input) ==
    SumSeq([i \in 1..Len(input) |-> input[i].transactionTime])

\* A call of maxTellerBusyTime has returned and nothing was called since.
Returned == pc = "idle" /\ lastResult.has_value /\ lastError = "none"

\* The event loop of the current call has found the queue empty.
LoopDone == pc = "running" /\ eventQueue = <<>>

\* Some customer of the run was released from the bank line after its arrival time.
SomeoneWaited ==
    \E i \in 1..Len(served) : served[i].startTime > served[i].arrivalEvent.arrivalTime

\* Position in the log of the first pop of e (0 when e was not popped).
PopIndex(log, e) ==
    LET at == {i \in 1..Len(log) : log[i] = Pop(e)}
    IN  IF at = {} THEN 0 ELSE CHOOSE i \in at : \A j \in at : i <= j

\* C1: when the event loop has run to completion, the tellers' elapsed busy
\* times add up to the sum of the transaction times of the trace, in the pool
\* and in the result returned, whatever order equal-time events came out in.
C1_WorkConservation ==
    /\ LoopDone =>
          SumSeq(gatherResults(tellers)) = TotalTransactionTime(simulationInput)
    /\ Returned =>
          SumSeq(lastResult.elapsedTimeBusy) = TotalTransactionTime(simulationInput)

\* A run has returned in which a customer waited, equal-time events were
\* ordered by the queue, and there was work to do.
C1_Witness ==
    /\ Returned
    /\ SomeoneWaited
    /\ tieMemo # {}
    /\ TotalTransactionTime(simulationInput) > 0

\* C2 as stated: on the trace of main() with 2 tellers the peak is 9.
C2_Original ==
    (Returned /\ lastResult.tellerCount = 2) => lastResult.peak = 9

\* C2: on the trace of main() with 2 tellers the peak is 11 when the departure
\* from teller 0 at time 26 comes out of the queue before the departure from
\* teller 1 at time 26, and 9 when teller 1's comes out first.
C2_PeakTwoTellers ==
    (Returned /\ lastResult.tellerCount = 2) =>
        /\ PopIndex(opLog, DepartureEvent(26, 0)) > 0
        /\ PopIndex(opLog, DepartureEvent(26, 1)) > 0
        /\ lastResult.peak =
              IF PopIndex(opLog, DepartureEvent(26, 0))
                    < PopIndex(opLog, DepartureEvent(26, 1))
              THEN 11 ELSE 9

\* The run with 2 tellers has returned 11.
C2_Witness ==
    Returned /\ lastResult.tellerCount = 2 /\ lastResult.peak = 11

\* C3 as stated: on the trace of main() with 5 tellers the peak is 6.
C3_Original ==
    (Returned /\ lastResult.tellerCount = 5) => lastResult.peak = 6

\* C3: on the trace of main() with 5 tellers the peak is 9: teller 0, idle
\* again at time 26, also serves the arrival at time 30.
C3_PeakFiveTellers ==
    (Returned /\ lastResult.tellerCount = 5) =>
        /\ lastResult.peak = 9
        /\ lastResult.elapsedTimeBusy = <<9, 4, 2, 0, 0>>

\* The run with 5 tellers has returned.
C3_Witness ==
    Returned /\ lastResult.tellerCount = 5 /\ Len(served) = 4

\* C4: on the trace of main() with 1 teller the peak is 15, and the teller is
\* busy from its first startWork at time 20 until the last departure at time
\* 35, whichever of the arrival and the departure at time 30 comes out first.
C4_OneTellerContinuous ==
    /\ (pc = "running" /\ runTellerCount = 1 /\ served # <<>> /\ eventQueue # <<>>)
          => ~isAvailable(tellers[1])
    /\ (pc = "running" /\ runTellerCount = 1 /\ served # <<>>)
          => served[1].startTime = 20
    /\ ((LoopDone \/ Returned) /\ runTellerCount = 1)
          => /\ CurrentTime(opLog) = 35
             /\ gatherResults(tellers) = <<15>>
    /\ (Returned /\ lastResult.tellerCount = 1) => lastResult.peak = 15

\* The run with 1 teller has returned after popping the arrival at time 30
\* before the departure at time 30.
C4_Witness ==
    /\ Returned
    /\ lastResult.tellerCount = 1
    /\ PopIndex(opLog, ArrivalEvent(30, 3)) < PopIndex(opLog, DepartureEvent(30, 0))

\* C5: a call of maxTellerBusyTime with a count outside MIN_TELLERS..MAX_TELLERS
\* raises invalid_argument and leaves the event queue, the bank line, the teller
\* pool, the stored trace and the last result as they were, whatever calls came
\* before; and no run is ever set up with such a count.
C5_RejectedCallChangesNothing ==
    [][/\ (pc = "idle" /\ lastError' = "invalid_argument") =>
              /\ pc' = "idle"
              /\ UNCHANGED <<simulationInput, eventQueue, bankLine, tellers,
                             lastResult>>
       /\ (pc = "idle" /\ pc' # "idle") =>
              /\ runTellerCount' \in MIN_TELLERS..MAX_TELLERS
              /\ lastError' = "none"]_vars

\* A call was rejected after a run that left busy tellers' times in the pool.
C5_Witness ==
    /\ pc = "idle"
    /\ lastError = "invalid_argument"
    /\ lastResult.has_value
    /\ \E i \in 1..Len(tellers) : tellers[i].elapsedTimeBusy > 0

\* C6: when a run returns and the run that returned before it had the same
\* teller count, the per-teller busy times and the peak are the same again.
C6_SameCountSameResult ==
    [][(/\ pc = "running"
        /\ pc' = "idle"
        /\ lastResult.has_value
        /\ lastResult.tellerCount = runTellerCount) =>
            /\ lastResult'.elapsedTimeBusy = lastResult.elapsedTimeBusy
            /\ lastResult'.peak = lastResult.peak]_vars

\* The second of two runs with the same teller count is about to return, after
\* a customer waited in it.
C6_Witness ==
    /\ LoopDone
    /\ lastResult.has_value
    /\ lastResult.tellerCount = runTellerCount
    /\ lastResult.peak > 0
    /\ SomeoneWaited

\* The events of queue are exactly those of input, counted with multiplicity.
SameEvents(queue, input) ==
    \A e \in Range(queue) \cup Range(input) : Count(queue, e) = Count(input, e)

\* C7: after a successful setupSimulation(n), whatever preceded it, the event
\* queue holds exactly the ArrivalEvents of the trace, the pool holds n tellers
\* that are all idle with busy time 0, and the bank line is empty; the trace is
\* never changed.
C7_FreshStatePerRun ==
    [][/\ simulationInput' = simulationInput
       /\ (pc = "idle" /\ pc' = "running") =>
              /\ SameEvents(eventQueue', simulationInput)
              /\ \A i \in 1..Len(eventQueue') : eventQueue'[i].kind = "ArrivalEvent"
              /\ Len(tellers') = runTellerCount'
              /\ \A i \in 1..Len(tellers') :
                    isAvailable(tellers'[i]) /\ elapsedTimeWorking(tellers'[i]) = 0
              /\ bankLine' = <<>>]_vars

\* A run has just been set up after a run with another teller count that left
\* busy time in the pool.
C7_Witness ==
    /\ pc = "running"
    /\ Popped(opLog) = 0
    /\ simulationInput # <<>>
    /\ lastResult.has_value
    /\ lastResult.tellerCount # runTellerCount
    /\ lastResult.peak > 0

\* C8: every run terminates: the event loop reaches an empty event queue and
\* the call returns, and the number of events popped in a run never exceeds
\* twice the number of arrivals of the trace.
C8_RunTerminates ==
    /\ [](Popped(opLog) <= 2 * Len(simulationInput))
    /\ (pc = "running") ~> (eventQueue = <<>> /\ pc \in {"running", "idle"})

\* A run has returned after popping twice as many events as there are arrivals.
C8_Witness ==
    /\ Returned
    /\ Len(simulationInput) >= 2
    /\ Popped(opLog) = 2 * Len(simulationInput)

\* C9: whenever the event queue is empty the bank line is empty, a run that has
\* drained the queue has served every arrival, and neither assertion of the
\* set-up (eventQueue.empty(), bankLine.empty()) ever fails.
C9_LineDrained ==
    /\ eventQueue = <<>> => bankLine = <<>>
    /\ (LoopDone \/ Returned) => Len(served) = Len(simulationInput)
    /\ pc # "aborted"

\* A second run has drained the queue, and a customer who waited in the bank
\* line was released from it.
C9_Witness ==
    /\ LoopDone
    /\ lastResult.has_value
    /\ bankLine = <<>>
    /\ SomeoneWaited

\* C10: every startWork made for a customer, on arrival or on release from the
\* bank line, is at a time greater than or equal to the customer's arrivalTime.
C10_NoNegativeWait ==
    \A i \in 1..Len(served) :
        served[i].startTime >= served[i].arrivalEvent.arrivalTime

\* One customer of the run was served on arrival and another was released from
\* the bank line later than it arrived.
C10_Witness ==
    /\ SomeoneWaited
    /\ \E i \in 1..Len(served) :
          served[i].startTime = served[i].arrivalEvent.arrivalTime

FromLine(service) == service.fromLine

\* The customers released from the bank line in the run, in order of release.
Released(services) ==
    LET fromLine == SelectSeq(services, FromLine)
    IN  [i \in 1..Len(fromLine) |-> fromLine[i].arrivalEvent]

\* TRUE when the pop at log[i] is of an arrival that went to the bank line:
\* no departure was pushed for it.
WentToLine(log, i) ==
    /\ log[i].op = "pop"
    /\ log[i].event.kind = "ArrivalEvent"
    /\ (i = Len(log) \/ log[i + 1].op = "pop")

\* The arrivals that went to the bank line, in the order they were popped.
RECURSIVE LineAppendedFrom(_, _)
LineAppendedFrom(log, i) ==
    IF i > Len(log) THEN <<>>
    ELSE (IF WentToLine(log, i) THEN <<log[i].event>> ELSE <<>>)
             \o LineAppendedFrom(log, i + 1)

\* C11: the customers released from the bank line, followed by those still in
\* it, are the customers appended to it, in the order they were appended; and
\* of two customers that waited, the one with the strictly smaller arrivalTime
\* starts service no later than the other.
C11_BankLineFIFO ==
    /\ Released(served) \o [i \in 1..Len(bankLine) |-> bankLine[i].arrivalEvent]
          = LineAppendedFrom(opLog, 1)
    /\ \A i, j \in 1..Len(served) :
          (/\ served[i].fromLine
           /\ served[j].fromLine
           /\ served[i].arrivalEvent.arrivalTime < served[j].arrivalEvent.arrivalTime)
              => served[i].startTime <= served[j].startTime

\* Two different customers were in the bank line at once and both have been
\* released from it.
C11_Witness ==
    /\ Len(Released(served)) >= 2
    /\ Released(served)[1] # Released(served)[2]
    /\ \E i \in 1..(Len(opLog) - 1) : WentToLine(opLog, i) /\ WentToLine(opLog, i + 1)

\* The indices of the pops in log.
Pops(log) == {i \in 1..Len(log) : log[i].op = "pop"}

\* C12: within a run the event times of the events popped from the event
\* queue are non-decreasing, departures pushed during the run included.
C12_TimeNeverGoesBack ==
    \A i, j \in Pops(opLog) :
        i < j => get_event_time(opLog[i].event) <= get_event_time(opLog[j].event)

\* A departure pushed during the run was popped before an arrival of the trace
\* with a later time.
C12_Witness ==
    \E i, j \in Pops(opLog) :
        /\ i < j
        /\ opLog[i].event.kind = "DepartureEvent"
        /\ opLog[j].event.kind = "ArrivalEvent"
        /\ get_event_time(opLog[i].event) < get_event_time(opLog[j].event)

\* C13: the peak returned for any valid teller count is at most the peak of
\* the single-teller run on the same trace: a single teller's busy time is the
\* sum of the transaction times, no run returns more than that, and a run that
\* returns after a single-teller run returns at most what that run returned.
C13_NeverAboveSingleTeller ==
    /\ [](Returned =>
            /\ lastResult.peak <= TotalTransactionTime(simulationInput)
            /\ (lastResult.tellerCount = 1 =>
                   lastResult.peak = TotalTransactionTime(simulationInput)))
    /\ [][(/\ pc = "running"
           /\ pc' = "idle"
           /\ lastResult.has_value
           /\ lastResult.tellerCount = 1) =>
               lastResult'.peak <= lastResult.peak]_vars

\* A run with more than one teller is about to return less than the
\* single-teller run before it returned.
C13_Witness ==
    /\ LoopDone
    /\ lastResult.has_value
    /\ lastResult.tellerCount = 1
    /\ runTellerCount > 1
    /\ maxTellerBusyTime(gatherResults(tellers)) < lastResult.peak

\* Number of arrivals of input whose closed service window
\* [arrivalTime, arrivalTime + transactionTime] holds the instant t.
OverlapAt(input, t) ==
    Cardinality({i \in 1..Len(input) :
                    /\ input[i].arrivalTime <= t
                    /\ t <= input[i].arrivalTime + input[i].transactionTime})

\* The largest number of service windows that overlap at one instant (it is
\* reached at the start of a window).
MaxOverlap(input) ==
    IF input = <<>> THEN 0
    ELSE LET counts == {OverlapAt(input, input[i].arrivalTime) : i \in 1..Len(input)}
         IN  CHOOSE c \in counts : \A d \in counts : d <= c

\* C14: when at no instant more arrivals have overlapping closed service
\* windows than there are tellers (so whenever there are as many tellers as
\* arrivals), the bank line is empty in every state of the run and no customer
\* is served from it, whatever order equal-time events come out in.
C14_NoWaitingWithEnoughTellers ==
    MaxOverlap(simulationInput) <= runTellerCount =>
        /\ bankLine = <<>>
        /\ \A i \in 1..Len(served) : ~served[i].fromLine

\* A run with fewer tellers than arrivals, whose windows never overlap beyond
\* the teller count, has drained the queue.
C14_Witness ==
    /\ LoopDone
    /\ runTellerCount < Len(simulationInput)
    /\ MaxOverlap(simulationInput) <= runTellerCount
    /\ Len(served) = Len(simulationInput)

\* C15: in every run a teller's accumulated busy time never decreases and
\* changes only in a stopWork call that takes the teller from Busy to Idle;
\* startWork leaves it alone, and between two event steps of a run it changes
\* only for the teller on which the step called such a stopWork.
C15_BusyTimeGrowsOnlyOnStop ==
    /\ [](\A k \in 1..Len(tellerCalls) :
            LET call == tellerCalls[k]
            IN  /\ elapsedTimeWorking(call.after) >= elapsedTimeWorking(call.before)
                /\ call.op = "startWork" =>
                       elapsedTimeWorking(call.after) = elapsedTimeWorking(call.before)
                /\ elapsedTimeWorking(call.after) # elapsedTimeWorking(call.before) =>
                       /\ call.op = "stopWork"
                       /\ ~isAvailable(call.before)
                       /\ isAvailable(call.after))
    /\ [][pc = "running" =>
             /\ Len(tellers') = Len(tellers)
             /\ \A t \in 1..Len(tellers) :
                   /\ elapsedTimeWorking(tellers'[t]) >= elapsedTimeWorking(tellers[t])
                   /\ elapsedTimeWorking(tellers'[t]) # elapsedTimeWorking(tellers[t]) =>
                          \E k \in 1..Len(tellerCalls') :
                              LET call == tellerCalls'[k]
                              IN  /\ call.op = "stopWork"
                                  /\ call.tellerIndex = t - 1
                                  /\ call.before = tellers[t]
                                  /\ ~isAvailable(call.before)
                                  /\ isAvailable(call.after)
                                  /\ elapsedTimeWorking(tellers'[t])
                                         = elapsedTimeWorking(call.after)]_vars

\* A departure step with a customer waiting: stopWork added to the busy time,
\* startWork followed at once and left it alone, and the teller is Busy again.
C15_Witness ==
    /\ pc = "running"
    /\ Len(tellerCalls) = 2
    /\ tellerCalls[1].op = "stopWork"
    /\ tellerCalls[2].op = "startWork"
    /\ elapsedTimeWorking(tellerCalls[1].after) > elapsedTimeWorking(tellerCalls[1].before)
    /\ tellers[tellerCalls[2].tellerIndex + 1] = tellerCalls[2].after
    /\ ~isAvailable(tellers[tellerCalls[2].tellerIndex + 1])

\* C16: the engine never breaks a Teller precondition: every startWork is
\* called on an Idle teller, every stopWork on a Busy one (so startBusy.value()
\* never throws), equal-time departures included.
C16_CallPreconditionsHold ==
    /\ pc # "threw"
    /\ \A k \in 1..Len(tellerCalls) :
          /\ tellerCalls[k].op = "startWork" => isAvailable(tellerCalls[k].before)
          /\ tellerCalls[k].op = "stopWork" => tellerCalls[k].before.startBusy.has_value

\* Two departures with the same time were popped one after the other, and the
\* second one's stopWork has been called.
C16_Witness ==
    /\ Len(opLog) >= 2
    /\ opLog[Len(opLog)].op = "pop"
    /\ opLog[Len(opLog) - 1].op = "pop"
    /\ opLog[Len(opLog)].event.kind = "DepartureEvent"
    /\ opLog[Len(opLog) - 1].event.kind = "DepartureEvent"
    /\ get_event_time(opLog[Len(opLog)].event)
           = get_event_time(opLog[Len(opLog) - 1].event)
    /\ Len(tellerCalls) = 1
    /\ tellerCalls[1].op = "stopWork"
    /\ tellerCalls[1].tellerIndex = opLog[Len(opLog)].event.tellerIndex

\* C17: at every stopWork(currentTime) call of a run, currentTime is at least
\* the start of the teller's busy period, so the amount added is not negative.
C17_NoNegativeElapsedTime ==
    \A k \in 1..Len(tellerCalls) :
        (tellerCalls[k].op = "stopWork" /\ tellerCalls[k].before.startBusy.has_value) =>
            tellerCalls[k].currentTime >= tellerCalls[k].before.startBusy.value

\* A stopWork call that ends a busy period of positive length.
C17_Witness ==
    \E k \in 1..Len(tellerCalls) :
        /\ tellerCalls[k].op = "stopWork"
        /\ tellerCalls[k].before.startBusy.has_value
        /\ tellerCalls[k].currentTime > tellerCalls[k].before.startBusy.value
        /\ elapsedTimeWorking(tellerCalls[k].after)
               = elapsedTimeWorking(tellerCalls[k].before)
                     + (tellerCalls[k].currentTime - tellerCalls[k].before.startBusy.value)

\* The event popped by the step from a state with history log to one with
\* history logAfter.
PoppedEvent(log, logAfter) == logAfter[Len(log) + 1].event

\* The step is an iteration of the event loop that pops an event of the kind.
ProcessesA(kind) ==
    /\ pc = "running"
    /\ Len(opLog') > Len(opLog)
    /\ opLog'[Len(opLog) + 1].op = "pop"
    /\ PoppedEvent(opLog, opLog').kind = kind

\* after holds the events of before and one more e.
OneMore(after, before, e) ==
    \A f \in Range(after) \cup Range(before) \cup {e} :
        Count(after, f) = Count(before, f) + (IF f = e THEN 1 ELSE 0)

\* The tellers of pool other than the one with index s are the same in poolAfter.
OthersUnchanged(pool, poolAfter, s) ==
    /\ Len(poolAfter) = Len(pool)
    /\ \A j \in 0..(Len(pool) - 1) : j # s => poolAfter[j + 1] = pool[j + 1]

\* C18: an arrival step with an Idle teller makes the Idle teller of lowest
\* index i Busy since arrivalTime, adds exactly one
\* DepartureEvent(arrivalTime + transactionTime, i) to the events left by the
\* pop and leaves the bank line and the other tellers alone; with no Idle
\* teller it appends the customer to the bank line and leaves the tellers and
\* the events left by the pop alone.
C18_ArrivalStep ==
    [][ProcessesA("ArrivalEvent") =>
          LET e == PoppedEvent(opLog, opLog')
              queue == RemoveOne(eventQueue, e)
              idle == {j \in 0..(Len(tellers) - 1) : ~tellers[j + 1].startBusy.has_value}
          IN  IF idle # {}
              THEN \E i \in idle :
                      /\ \A j \in idle : i <= j
                      /\ tellers'[i + 1].startBusy = Some(e.arrivalTime)
                      /\ tellers'[i + 1].elapsedTimeBusy = tellers[i + 1].elapsedTimeBusy
                      /\ OthersUnchanged(tellers, tellers', i)
                      /\ OneMore(eventQueue', queue,
                                 DepartureEvent(e.arrivalTime + e.transactionTime, i))
                      /\ Len(eventQueue') = Len(queue) + 1
                      /\ bankLine' = bankLine
              ELSE /\ bankLine' = Append(bankLine, Customer(e))
                   /\ tellers' = tellers
                   /\ SameEvents(eventQueue', queue)
                   /\ Len(eventQueue') = Len(queue)]_vars

\* An arrival has just been given to teller 1 because teller 0 was Busy.
C18_Witness ==
    /\ Len(opLog) >= 2
    /\ opLog[Len(opLog) - 1].op = "pop"
    /\ opLog[Len(opLog) - 1].event.kind = "ArrivalEvent"
    /\ opLog[Len(opLog)].op = "push"
    /\ opLog[Len(opLog)].event.tellerIndex = 1
    /\ tellers[1].startBusy.has_value
    /\ tellers[2].startBusy = Some(opLog[Len(opLog) - 1].event.arrivalTime)

\* C19: a departure step of teller s at departureTime adds
\* departureTime - (start of the busy period) to teller s's busy time and leaves
\* the other tellers alone; with a customer waiting it removes the head of the
\* bank line, leaves teller s Busy since departureTime and adds exactly one
\* DepartureEvent(departureTime + the head's transactionTime, s); with the bank
\* line empty it leaves teller s Idle and adds no event.
C19_DepartureStep ==
    [][ProcessesA("DepartureEvent") =>
          LET e == PoppedEvent(opLog, opLog')
              s == e.tellerIndex
              queue == RemoveOne(eventQueue, e)
          IN  /\ tellers[s + 1].startBusy.has_value
              /\ tellers'[s + 1].elapsedTimeBusy =
                     tellers[s + 1].elapsedTimeBusy
                         + (e.departureTime - tellers[s + 1].startBusy.value)
              /\ OthersUnchanged(tellers, tellers', s)
              /\ IF bankLine # <<>>
                 THEN /\ bankLine' = Tail(bankLine)
                      /\ tellers'[s + 1].startBusy = Some(e.departureTime)
                      /\ OneMore(eventQueue', queue,
                                 DepartureEvent(e.departureTime
                                                    + Head(bankLine).arrivalEvent.transactionTime,
                                                s))
                      /\ Len(eventQueue') = Len(queue) + 1
                 ELSE /\ bankLine' = bankLine
                      /\ tellers'[s + 1].startBusy = Nullopt
                      /\ SameEvents(eventQueue', queue)
                      /\ Len(eventQueue') = Len(queue)]_vars

\* A departure has just handed its teller the customer at the head of the bank
\* line, and the customer's departure was pushed.
C19_Witness ==
    /\ Len(opLog) >= 2
    /\ served # <<>>
    /\ opLog[Len(opLog) - 1].op = "pop"
    /\ opLog[Len(opLog) - 1].event.kind = "DepartureEvent"
    /\ opLog[Len(opLog)].op = "push"
    /\ opLog[Len(opLog)].event.tellerIndex = opLog[Len(opLog) - 1].event.tellerIndex
    /\ served[Len(served)].fromLine
    /\ opLog[Len(opLog)].event.departureTime =
           opLog[Len(opLog) - 1].event.departureTime
               + served[Len(served)].arrivalEvent.transactionTime

\* Number of DepartureEvents of teller index i that are in the queue.
PendingDepartures(queue, i) ==
    Cardinality({k \in 1..Len(queue) :
                    /\ queue[k].kind = "DepartureEvent"
                    /\ queue[k].tellerIndex = i})

\* C20: between the event steps of a run, when the bank line is not empty
\* every teller of the pool is Busy and has exactly one pending DepartureEvent
\* with its index, so no customer waits while a teller is Idle; and an Idle
\* teller never has a pending DepartureEvent.
C20_WorkConserving ==
    pc = "running" =>
        \A i \in 0..(Len(tellers) - 1) :
            /\ bankLine # <<>> =>
                   /\ tellers[i + 1].startBusy.has_value
                   /\ PendingDepartures(eventQueue, i) = 1
            /\ ~tellers[i + 1].startBusy.has_value =>
                   PendingDepartures(eventQueue, i) = 0

\* A customer waits behind two Busy tellers, each with its departure pending.
C20_Witness ==
    /\ pc = "running"
    /\ bankLine # <<>>
    /\ Len(tellers) = 2
    /\ PendingDepartures(eventQueue, 0) = 1
    /\ PendingDepartures(eventQueue, 1) = 1

====
